---- MODULE Spec2Model ----
(***************************************************************************)
(* The streaming ingestion engine of the FileUpload component              *)
(* (src/frontent/src/components/Upload.js, lines 120-409): the reducer     *)
(* streamReducer, the memoized async handler handleUploadAndAnalyze, the   *)
(* file input handler and the "Upload & Analyze" button.                   *)
(*                                                                         *)
(* Every run of handleUploadAndAnalyze is a session: a process with its    *)
(* own locals (isStreamSuccessful, reader, buffer, signal) and with the    *)
(* `state` its closure captured.  The awaits (the two fetches, read(),     *)
(* reader.cancel()) are the suspension points; what runs between two of    *)
(* them is one action.  React re-renders after each of these synchronous   *)
(* blocks, and useCallback then keeps or replaces the memoized handler.    *)
(*                                                                         *)
(* Text on the wire is a sequence of lexemes: "\n", " ", "data:", ":ping", *)
(* "[DONE]" and one lexeme per JSON body.  Published strings (status,      *)
(* transcript, summary, error) are strings.  The cross mark U+274C and the *)
(* check mark U+2705 of the status texts are written "[x]" and "[ok]".     *)
(***************************************************************************)
EXTENDS Integers, Sequences, FiniteSets, TLC

VARIABLES
    file,         \* useState file (line 155): NoFile or a file name
    state,        \* useReducer state (line 156), as last rendered
    cb,           \* the `state` fields captured by the memoized handler (lines 184, 310)
    abortRef,     \* abortControllerRef.current (line 161): 0 for null, else a controller
    controllers,  \* controllers[c] = signal.aborted of the c-th AbortController
    sessions,     \* the runs of handleUploadAndAnalyze, in start order
    hist,         \* history of the latest session: its stream, its decoded frames
    dispatched,   \* history: the actions ReducerStep handed to the reducer, in order
    app           \* App and its Upload component (Upload.js lines 1-118, App.js)

vars == <<file, state, cb, abortRef, controllers, sessions, hist, dispatched, app>>

----------------------------------------------------------------------------
(* Bounds *)

MaxSessions == 2      \* runs of handleUploadAndAnalyze in one behaviour
MaxRecords == 3       \* records the backend writes to one stream
MaxDispatch == 3      \* actions dispatched in one behaviour of SpecReducer

----------------------------------------------------------------------------
(* Values *)

Null == "<null>"            \* JavaScript null / undefined
NoFile == Null
Files == {"a.mp3"}

TruthyNotNull(v) == v # Null

\* JavaScript truthiness of a string or null
Truthy(v) == v # Null /\ v # ""

InterruptedMsg == "The streaming connection was interrupted."
CompleteMsg == "[ok] Analysis Complete. Full Report Available."
FatalFallbackMsg == "A fatal network or processing error occurred."
FetchFailedMsg == "Failed to fetch"       \* message of the TypeError a failed fetch rejects with
NetworkErrorMsg == "network error"        \* message of the TypeError a failed read() rejects with
SyntaxErrorMsg == "Unexpected token"      \* message of the SyntaxError of JSON.parse

StatusCodes == {500}                      \* non-2xx statuses the backend answers with

initialState ==
    [transcript |-> "", summary |-> "",
     statusMessage |-> "Upload an audio or video file to begin.",
     error |-> Null, isProcessing |-> FALSE]

Action(t, p) == [type |-> t, payload |-> p]

----------------------------------------------------------------------------
(* streamReducer, lines 131-152 *)

AppendPartAlwaysSpaced(current, payload) == " " \o payload

\* lines 139 and 143: a space precedes the new chunk if content exists
AppendPart(current, payload) ==
    IF Len(current) > 0 THEN " " \o payload ELSE payload

streamReducerStartKeeps(s, a) ==
    CASE a.type = "START" ->
            [s EXCEPT !.isProcessing = TRUE,
                      !.statusMessage = "File uploading...",
                      !.error = Null]
      [] a.type = "UPDATE_STATUS" ->
            [s EXCEPT !.statusMessage = a.payload]
      [] a.type = "APPEND_TRANSCRIPT" ->
            [s EXCEPT !.transcript = s.transcript \o AppendPart(s.transcript, a.payload)]
      [] a.type = "APPEND_SUMMARY" ->
            [s EXCEPT !.summary = s.summary \o AppendPart(s.summary, a.payload)]
      [] a.type = "COMPLETE" ->
            [s EXCEPT !.isProcessing = FALSE,
                      !.statusMessage = IF Truthy(a.payload) THEN a.payload
                                        ELSE s.statusMessage]
      [] a.type = "ERROR" ->
            [s EXCEPT !.isProcessing = FALSE,
                      !.error = a.payload,
                      !.statusMessage = "[x] Error: " \o a.payload]
      [] OTHER -> s

streamReducerCompleteClearsError(s, a) ==
    CASE a.type = "START" ->
            [initialState EXCEPT !.isProcessing = TRUE,
                                 !.statusMessage = "File uploading...",
                                 !.error = Null]
      [] a.type = "UPDATE_STATUS" ->
            [s EXCEPT !.statusMessage = a.payload]
      [] a.type = "APPEND_TRANSCRIPT" ->
            [s EXCEPT !.transcript = s.transcript \o AppendPart(s.transcript, a.payload)]
      [] a.type = "APPEND_SUMMARY" ->
            [s EXCEPT !.summary = s.summary \o AppendPart(s.summary, a.payload)]
      [] a.type = "COMPLETE" ->
            [s EXCEPT !.isProcessing = FALSE,
                      !.error = Null,
                      !.statusMessage = IF Truthy(a.payload) THEN a.payload
                                        ELSE s.statusMessage]
      [] a.type = "ERROR" ->
            [s EXCEPT !.isProcessing = FALSE,
                      !.error = a.payload,
                      !.statusMessage = "[x] Error: " \o a.payload]
      [] OTHER -> s

streamReducer(s, a) ==
    CASE a.type = "START" ->
            [initialState EXCEPT !.isProcessing = TRUE,
                                 !.statusMessage = "File uploading...",
                                 !.error = Null]
      [] a.type = "UPDATE_STATUS" ->
            [s EXCEPT !.statusMessage = a.payload]
      [] a.type = "APPEND_TRANSCRIPT" ->
            [s EXCEPT !.transcript = s.transcript \o AppendPart(s.transcript, a.payload)]
      [] a.type = "APPEND_SUMMARY" ->
            [s EXCEPT !.summary = s.summary \o AppendPart(s.summary, a.payload)]
      [] a.type = "COMPLETE" ->
            [s EXCEPT !.isProcessing = FALSE,
                      !.statusMessage = IF Truthy(a.payload) THEN a.payload
                                        ELSE s.statusMessage]
      [] a.type = "ERROR" ->
            [s EXCEPT !.isProcessing = FALSE,
                      !.error = a.payload,
                      !.statusMessage = "[x] Error: " \o a.payload]
      [] OTHER -> s

\* dispatch of a sequence of actions, in order
RECURSIVE Dispatch(_, _)
Dispatch(s, acts) ==
    IF acts = <<>> THEN s
    ELSE Dispatch(streamReducer(s, Head(acts)), Tail(acts))

IsTerminal(a) == a.type \in {"COMPLETE", "ERROR"}

----------------------------------------------------------------------------
(* Rendering: useCallback(..., [file, state.error]), lines 184 and 310 *)

Capture(s) == [isProcessing |-> s.isProcessing, error |-> s.error]

\* A render with the same file: the handler is replaced only when state.error
\* differs from the one the current handler was created with.
Rerender(oldCb, s) == IF s.error # oldCb.error THEN Capture(s) ELSE oldCb

----------------------------------------------------------------------------
(* The wire: what the backend writes to the event stream *)

NL == "\n"
SP == " "
DataPrefix == "data:"
DoneToken == "[DONE]"

\* JSON bodies, one lexeme each, and what JSON.parse makes of them.
JError == "{\"tag\":\"ERROR\",\"message\":\"boom\"}"
JHello == "{\"transcript\":\"hello\",\"summary\":\"\"}"
JWorld == "{\"tag\":\"STATUS\",\"message\":\"Summarizing\",\"transcript\":\"world\",\"summary\":\"recap\"}"
JBad == "{\"transcript\":"

Payload(tag, message, transcript, summary) ==
    [tag |-> tag, message |-> message, transcript |-> transcript, summary |-> summary]

\* JSON.parse (line 260): defined on a body that is exactly one JSON text
\* (surrounding white space allowed); anything else throws a SyntaxError.
JSONValid(body) ==
    \E i \in 1..Len(body) :
        /\ body[i] \in {JError, JHello, JWorld}
        /\ \A j \in (1..Len(body)) \ {i} : body[j] \in {SP, NL}

JSONroot(body) == body[CHOOSE i \in 1..Len(body) : body[i] \notin {SP, NL}]

JSONparse(body) ==
    LET j == JSONroot(body) IN
    CASE j = JError -> Payload("ERROR", "boom", Null, Null)
      [] j = JHello -> Payload(Null, Null, "hello", "")
      [] j = JWorld -> Payload("STATUS", "Summarizing", "world", "recap")

\* The kinds of record the backend writes, each ended by a blank line.  The
\* keep-alive comment is followed by one more newline than the others.
RecordKinds == {"error", "hello", "world", "bad", "done", "ping"}

RecordText(k) ==
    CASE k = "error"  -> <<DataPrefix, SP, JError, NL, NL>>
      [] k = "hello"  -> <<DataPrefix, SP, JHello, NL, NL>>
      [] k = "world"  -> <<DataPrefix, JWorld, SP, NL, NL>>
      [] k = "bad"    -> <<DataPrefix, SP, JBad, NL, NL>>
      [] k = "done"   -> <<DataPrefix, SP, DoneToken, NL, NL>>
      [] k = "ping"   -> <<":ping", NL, NL, NL>>

RECURSIVE WireText(_)
WireText(recs) ==
    IF recs = <<>> THEN <<>> ELSE RecordText(Head(recs)) \o WireText(Tail(recs))

\* The sequences of at most n records
Streams(n) == UNION {[1..m -> RecordKinds] : m \in 0..n}

----------------------------------------------------------------------------
(* String helpers of the read loop, on lexeme sequences *)

\* buffer.indexOf('\n\n') (line 243), 1-based; 0 stands for -1
indexOfBlankLine(buf) ==
    LET hits == {i \in 1..(Len(buf) - 1) : buf[i] = NL /\ buf[i + 1] = NL} IN
    IF hits = {} THEN 0
    ELSE CHOOSE i \in hits : \A j \in hits : i <= j

RECURSIVE trimStart(_)
trimStart(s) ==
    IF s # <<>> /\ Head(s) \in {SP, NL} THEN trimStart(Tail(s)) ELSE s

RECURSIVE trimEnd(_)
trimEnd(s) ==
    IF s # <<>> /\ s[Len(s)] \in {SP, NL}
    THEN trimEnd(SubSeq(s, 1, Len(s) - 1)) ELSE s

\* String.prototype.trim (lines 246, 250)
trim(s) == trimEnd(trimStart(s))

\* message.startsWith("data:") (line 249)
startsWithData(message) == message # <<>> /\ Head(message) = DataPrefix

AppendChunkDropsRemainder(buffer, chunk) == chunk

\* buffer += decoder.decode(value, { stream: true }) (line 239)
AppendChunk(buffer, chunk) == buffer \o chunk

----------------------------------------------------------------------------
(* The body of the inner while loop, lines 246-279 *)

DoneSignalNever(dataString) == FALSE

\* dataString === "[DONE]" (line 253)
DoneSignal(dataString) == dataString = <<DoneToken>>

Outcome(kind, acts, err) == [kind |-> kind, acts |-> acts, err |-> err]

\* The inner try block, lines 260-274: what it dispatches before it ends
\* ("continue") or throws ("throw", with the error's message).
InnerTry(dataString) ==
    IF ~JSONValid(dataString) THEN Outcome("throw", <<>>, SyntaxErrorMsg)
    ELSE
        LET data == JSONparse(dataString)
            status == IF data.tag = "STATUS"
                      THEN <<Action("UPDATE_STATUS", data.message)>> ELSE <<>>
            transcript == IF Truthy(data.transcript)
                          THEN <<Action("APPEND_TRANSCRIPT", data.transcript)>> ELSE <<>>
            summary == IF Truthy(data.summary)
                       THEN <<Action("APPEND_SUMMARY", data.summary)>> ELSE <<>>
        IN  IF data.tag = "ERROR" THEN Outcome("throw", status, data.message)
            ELSE Outcome("continue", status \o transcript \o summary, Null)

InnerCatchRethrows(o) == o

\* catch (e) { console.error(...) }, lines 275-278: whatever the inner try
\* threw is logged, and the loop goes on.
InnerCatch(o) ==
    IF o.kind = "throw" THEN Outcome("continue", o.acts, Null) ELSE o

\* One decoded message: "return" on [DONE], else the dispatches of the inner
\* try/catch; a message that is no data line does nothing.
HandleMessage(message) ==
    IF startsWithData(message)
    THEN LET dataString == trim(Tail(message)) IN
         IF DoneSignal(dataString) THEN Outcome("return", <<>>, Null)
         ELSE InnerCatch(InnerTry(dataString))
    ELSE Outcome("continue", <<>>, Null)

\* The inner while loop, lines 242-280, run on the buffer until no blank line
\* is left, [DONE] returns or an error escapes.  log gets one entry per
\* decoded message: the message and the actions dispatched for it.
RECURSIVE Drain(_, _, _)
Drain(buf, st, log) ==
    LET endOfMessage == indexOfBlankLine(buf) IN
    IF endOfMessage = 0
    THEN [buffer |-> buf, state |-> st, log |-> log, kind |-> "continue", err |-> Null]
    ELSE LET message == trim(SubSeq(buf, 1, endOfMessage - 1))
             rest == SubSeq(buf, endOfMessage + 2, Len(buf))
             o == HandleMessage(message)
             st1 == Dispatch(st, o.acts)
             log1 == Append(log, [message |-> message, acts |-> o.acts])
         IN  IF o.kind = "continue" THEN Drain(rest, st1, log1)
             ELSE [buffer |-> rest, state |-> st1, log |-> log1,
                   kind |-> o.kind, err |-> o.err]

----------------------------------------------------------------------------
(* Sessions: the runs of handleUploadAndAnalyze, lines 184-310 *)

\* pc: the await the run is suspended at ("upload" line 202, "stream" line
\* 215, "read" line 231, "cancel" line 294) or "done" once it has returned.
\* exit and terminals are history: the path the run left the try block by and
\* the terminal actions it has dispatched.  issued is history too: the
\* requests the run has issued, in order ("upload" line 202, "stream" line
\* 215, "read" the first reader.read() of line 231).
NewSession(capturedError, controller) ==
    [pc |-> "upload",
     isStreamSuccessful |-> FALSE,          \* line 195
     reader |-> FALSE,                      \* line 196: reader # null
     stateError |-> Truthy(capturedError),  \* line 300: state.error of the closure is truthy
     uploadOk |-> FALSE,                    \* line 208: uploadRes.ok was found true
     streamOk |-> FALSE,                    \* line 221: streamRes.ok && streamRes.body
     issued |-> <<"upload">>,
     signal |-> controller,                 \* line 190
     wire |-> <<>>,                         \* written by the backend, not delivered yet
     buffer |-> <<>>,                       \* line 227
     exit |-> "none",
     terminals |-> <<>>]

\* A finished run, its history dropped when the next run starts.
Retired ==
    [pc |-> "done", isStreamSuccessful |-> FALSE, reader |-> FALSE,
     stateError |-> FALSE, uploadOk |-> FALSE, streamOk |-> FALSE,
     issued |-> <<>>, signal |-> 0, wire |-> <<>>, buffer |-> <<>>,
     exit |-> "retired", terminals |-> <<>>]

\* recs: the records written to the stream; log: the messages decoded from
\* it; split: a chunk has ended inside a record.
EmptyHist == [recs |-> <<>>, log |-> <<>>, split |-> FALSE]

Live(i) == sessions[i].pc # "done"
Latest == Len(sessions)
Aborted(i) == sessions[i].signal # 0 /\ controllers[sessions[i].signal]

\* lines 283-289
CatchActs(errName, errMessage) ==
    IF errName = "AbortError" THEN <<>>
    ELSE <<Action("ERROR", IF Truthy(errMessage) THEN errMessage ELSE FatalFallbackMsg)>>

\* lines 297-303; state.error is the one the closure captured
FinalActs(s) ==
    IF s.isStreamSuccessful THEN <<Action("COMPLETE", CompleteMsg)>>
    ELSE IF ~s.stateError THEN <<Action("ERROR", InterruptedMsg)>>
    ELSE <<>>

\* lines 306-308
AbortCurrent(ctls, ref) ==
    IF ref # 0 /\ ~ctls[ref] THEN [ctls EXCEPT ![ref] = TRUE] ELSE ctls

\* An aborted signal errors the body stream it was passed with (line 218):
\* what the transport still held is discarded, and the run's buffer is never
\* read again, its pending read() being rejected.
Discard(ss, ctls) ==
    [i \in 1..Len(ss) |->
        IF ss[i].pc = "read" /\ ss[i].signal # 0 /\ ctls[ss[i].signal]
        THEN [ss[i] EXCEPT !.wire = <<>>, !.buffer = <<>>]
        ELSE ss[i]]

Terminals(acts) == SelectSeq(acts, IsTerminal)

\* The catch block (its dispatches are caught) and the whole finally block
\* in one step.  This is the way out when reader is still null (lines
\* 198-223), and when the body stream is closed or errored: reader.cancel()
\* (line 294) is then settled at once, and the rest of the finally block runs
\* before any other event is handled.
Finish(i, caught, exit) ==
    LET s == sessions[i]
        acts == caught \o FinalActs(s)
    IN  /\ state' = Dispatch(state, acts)
        /\ cb' = Rerender(cb, state')
        /\ controllers' = AbortCurrent(controllers, abortRef)
        /\ sessions' = Discard([sessions EXCEPT ![i] =
                                    [s EXCEPT !.pc = "done", !.exit = exit,
                                              !.wire = <<>>, !.buffer = <<>>,
                                              !.terminals = @ \o Terminals(acts)]],
                               controllers')
        /\ UNCHANGED <<file, abortRef, dispatched, app>>

----------------------------------------------------------------------------
(* The button and the file input *)

ButtonDisabledIgnoresProcessing == file = NoFile

\* disabled={!file || state.isProcessing} (line 345)
ButtonDisabled == file = NoFile \/ state.isProcessing

\* if (!file || state.isProcessing) return; (line 185), on the captured state
GuardReturns == file = NoFile \/ cb.isProcessing

\* A click the button passes on and the guard lets through: lines 188-202,
\* up to the await of the upload.
ClickStart ==
    /\ ~ButtonDisabled
    /\ ~GuardReturns
    /\ Len(sessions) < MaxSessions
    /\ state' = Dispatch(state, <<Action("START", Null),
                                  Action("UPDATE_STATUS", "Uploading file to server...")>>)
    /\ cb' = Rerender(cb, state')
    /\ controllers' = Append(controllers, FALSE)
    /\ abortRef' = Len(controllers) + 1
    /\ sessions' = Append([i \in 1..Len(sessions) |->
                                IF sessions[i].pc = "done" THEN Retired ELSE sessions[i]],
                           NewSession(cb.error, abortRef'))
    /\ hist' = EmptyHist
    /\ UNCHANGED <<file, dispatched, app>>

\* A click on the disabled button reaches no handler.
ClickDisabled ==
    /\ ButtonDisabled
    /\ UNCHANGED vars

\* A click the button passes on and the guard of line 185 returns from.
ClickReturns ==
    /\ ~ButtonDisabled
    /\ GuardReturns
    /\ UNCHANGED vars

FileSelectedMsg(f) ==
    IF f # NoFile THEN "File selected: " \o f \o ". Ready to analyze."
    ELSE "Upload an audio or video file to begin."

handleFileChangeResets(f) ==
    /\ ~state.isProcessing
    /\ file' = f
    /\ state' = [initialState EXCEPT !.statusMessage = FileSelectedMsg(f)]
    /\ cb' = Capture(state')
    /\ UNCHANGED <<abortRef, controllers, sessions, hist, dispatched, app>>

\* handleFileChange, lines 176-181.  A selected File is a new object, so the
\* render that follows always replaces the memoized handler.
handleFileChange(f) ==
    /\ ~state.isProcessing
    /\ file' = f
    /\ state' = streamReducer(state, Action("COMPLETE", FileSelectedMsg(f)))
    /\ cb' = Capture(state')
    /\ UNCHANGED <<abortRef, controllers, sessions, hist, dispatched, app>>

----------------------------------------------------------------------------
(* The awaits of a session *)

AbortErrorMsg == "The user aborted a request."

\* line 202 resolves with a 2xx response: lines 208-215
UploadOk(i) ==
    /\ sessions[i].pc = "upload" /\ ~Aborted(i)
    /\ state' = streamReducer(state,
            Action("UPDATE_STATUS", "File uploaded. Starting processing stream..."))
    /\ cb' = Rerender(cb, state')
    /\ sessions' = [sessions EXCEPT ![i].pc = "stream", ![i].uploadOk = TRUE,
                                    ![i].issued = Append(@, "stream")]
    /\ UNCHANGED <<file, abortRef, controllers, hist, dispatched, app>>

UploadNotOkGoesOn(i, status) ==
    /\ sessions[i].pc = "upload" /\ ~Aborted(i)
    /\ state' = streamReducer(state,
            Action("UPDATE_STATUS", "File uploaded. Starting processing stream..."))
    /\ cb' = Rerender(cb, state')
    /\ sessions' = [sessions EXCEPT ![i].pc = "stream",
                                    ![i].issued = Append(@, "stream")]
    /\ UNCHANGED <<file, abortRef, controllers, hist, dispatched, app>>

\* line 202 resolves with a non-2xx response: line 209 throws
UploadNotOk(i, status) ==
    /\ sessions[i].pc = "upload" /\ ~Aborted(i)
    /\ Finish(i, CatchActs("Error", "Upload failed with status " \o ToString(status)),
              "uploadFail")
    /\ UNCHANGED hist

\* line 202 rejects: the network failed
UploadRejects(i) ==
    /\ sessions[i].pc = "upload" /\ ~Aborted(i)
    /\ Finish(i, CatchActs("TypeError", FetchFailedMsg), "uploadFail")
    /\ UNCHANGED hist

\* line 202 rejects because the signal was aborted
UploadAborts(i) ==
    /\ sessions[i].pc = "upload" /\ Aborted(i)
    /\ Finish(i, CatchActs("AbortError", AbortErrorMsg), "abort")
    /\ UNCHANGED hist

\* line 215 resolves with a 2xx response that has a body: lines 221-227
StreamOk(i) ==
    /\ sessions[i].pc = "stream" /\ ~Aborted(i)
    /\ sessions' = [sessions EXCEPT ![i].pc = "read", ![i].reader = TRUE,
                                    ![i].streamOk = TRUE,
                                    ![i].issued = Append(@, "read"),
                                    ![i].wire = <<>>, ![i].buffer = <<>>]
    /\ hist' = IF i = Latest THEN EmptyHist ELSE hist
    /\ UNCHANGED <<file, state, cb, abortRef, controllers, dispatched, app>>

\* line 215 resolves with a non-2xx response: line 222 throws
StreamNotOk(i, status) ==
    /\ sessions[i].pc = "stream" /\ ~Aborted(i)
    /\ Finish(i, CatchActs("Error", "Stream request failed with status " \o ToString(status)),
              "streamFail")
    /\ UNCHANGED hist

\* line 215 resolves with a 2xx response without a body: line 222 throws
StreamNoBody(i) ==
    /\ sessions[i].pc = "stream" /\ ~Aborted(i)
    /\ Finish(i, CatchActs("Error", "Stream request failed with status " \o ToString(200)),
              "streamFail")
    /\ UNCHANGED hist

\* line 215 rejects: the network failed
StreamRejects(i) ==
    /\ sessions[i].pc = "stream" /\ ~Aborted(i)
    /\ Finish(i, CatchActs("TypeError", FetchFailedMsg), "streamFail")
    /\ UNCHANGED hist

\* line 215 rejects because the signal was aborted
StreamAborts(i) ==
    /\ sessions[i].pc = "stream" /\ Aborted(i)
    /\ Finish(i, CatchActs("AbortError", AbortErrorMsg), "abort")
    /\ UNCHANGED hist

\* How many more records the backend may write to the stream of session i
Unwritten(i) == IF i = Latest THEN MaxRecords - Len(hist.recs) ELSE 0

\* Where a chunk may end when the records new were written after wire: in
\* the last of them, or anywhere in wire when nothing new was written.
ChunkEnds(wire, new) ==
    LET written == wire \o WireText(new) IN
    IF new = <<>> THEN 1..Len(wire)
    ELSE (Len(written) - Len(RecordText(new[Len(new)])) + 1)..Len(written)

\* line 231 resolves with a chunk.  The backend has written the records
\* new since the last read; the chunk is the next k lexemes of what is
\* written and not yet delivered, and reaches into the last record written.
\* Then lines 238-280, and either the next read or the way out of the try
\* block while the body stream is still readable: on [DONE] (line 256), or
\* on an escaping error through the catch block (lines 283-289); the finally
\* block then suspends at reader.cancel() (line 294).
ReadChunk(i, new, k) ==
    LET s == sessions[i]
        written == s.wire \o WireText(new)
        chunk == SubSeq(written, 1, k)
        r == Drain(AppendChunk(s.buffer, chunk), state,
                   IF i = Latest THEN hist.log ELSE <<>>)
    IN  /\ s.pc = "read" /\ ~Aborted(i)
        /\ k \in ChunkEnds(s.wire, new)
        /\ hist' = IF i = Latest
                   THEN [hist EXCEPT !.recs = hist.recs \o new, !.log = r.log,
                                     !.split = @ \/ (r.kind = "continue"
                                                       /\ trim(r.buffer) # <<>>)]
                   ELSE hist
        /\ CASE r.kind = "continue" ->
                    /\ state' = r.state
                    /\ cb' = Rerender(cb, state')
                    /\ sessions' = [sessions EXCEPT
                            ![i].wire = SubSeq(written, k + 1, Len(written)),
                            ![i].buffer = r.buffer]
                    /\ UNCHANGED <<file, abortRef, controllers, dispatched, app>>
             [] r.kind = "return" ->
                    /\ state' = r.state
                    /\ cb' = Rerender(cb, state')
                    /\ sessions' = [sessions EXCEPT ![i] =
                            [s EXCEPT !.pc = "cancel", !.exit = "done",
                                      !.isStreamSuccessful = TRUE,
                                      !.wire = <<>>, !.buffer = <<>>]]
                    /\ UNCHANGED <<file, abortRef, controllers, dispatched, app>>
             [] r.kind = "throw" ->
                    LET caught == CatchActs("Error", r.err) IN
                    /\ state' = Dispatch(r.state, caught)
                    /\ cb' = Rerender(cb, state')
                    /\ sessions' = [sessions EXCEPT ![i] =
                            [s EXCEPT !.pc = "cancel", !.exit = "thrown",
                                      !.wire = <<>>, !.buffer = <<>>,
                                      !.terminals = @ \o Terminals(caught)]]
                    /\ UNCHANGED <<file, abortRef, controllers, dispatched, app>>

\* line 231 resolves with done: the transport is exhausted (lines 233-236)
ReadDone(i) ==
    /\ sessions[i].pc = "read" /\ ~Aborted(i)
    /\ sessions[i].wire = <<>>
    /\ Finish(i, <<>>, "exhausted")
    /\ UNCHANGED hist

\* line 231 rejects: the connection broke
ReadRejects(i) ==
    /\ sessions[i].pc = "read" /\ ~Aborted(i)
    /\ Finish(i, CatchActs("TypeError", NetworkErrorMsg), "readError")
    /\ UNCHANGED hist

\* line 231 rejects because the signal was aborted
ReadAborts(i) ==
    /\ sessions[i].pc = "read" /\ Aborted(i)
    /\ Finish(i, CatchActs("AbortError", AbortErrorMsg), "abort")
    /\ UNCHANGED hist

\* line 294 settles: the rest of the finally block, lines 297-308
CancelSettles(i) ==
    /\ sessions[i].pc = "cancel"
    /\ Finish(i, <<>>, sessions[i].exit)
    /\ UNCHANGED hist

\* A cancel request (spec section 4.4): the signal of the current controller
\* is triggered while its session runs.
Abort ==
    /\ abortRef # 0 /\ ~controllers[abortRef]
    /\ \E i \in 1..Len(sessions) :
            sessions[i].signal = abortRef /\ sessions[i].pc \in {"upload", "stream", "read"}
    /\ controllers' = [controllers EXCEPT ![abortRef] = TRUE]
    /\ sessions' = Discard(sessions, controllers')
    /\ UNCHANGED <<file, state, cb, abortRef, hist, dispatched, app>>

----------------------------------------------------------------------------
(* App (App.js) and its Upload component (Upload.js, lines 4-118) *)

MaxStreamData == 2      \* objects held in App's streamData
MaxUploads == 3         \* runs of handleUpload in one behaviour

UploadFiles == {"a.mp3", "b.mp4"}
UploadFailedMsg ==
    "[x] Upload failed. Check if the backend is running and accessible (http://localhost:8000)."
SelectFirstMsg == "Please select a file first."

\* file, streamData: the state of App (App.js lines 6-8); localFile,
\* isUploading, error: the state of Upload (lines 5-7); pc: the await the run
\* of handleUpload is suspended at ("fetch", line 35) or "idle"; captured: the
\* localFile of the closure of that run; responses: history, how the fetches
\* of the runs so far settled, in order.
AppInit ==
    [file |-> NoFile, streamData |-> <<>>,
     localFile |-> NoFile, isUploading |-> FALSE, error |-> Null,
     pc |-> "idle", captured |-> NoFile, responses |-> <<>>]

fileUploadVars == <<file, state, cb, abortRef, controllers, sessions, hist, dispatched>>

\* {file && <TranscriptStream ... />} (App.js line 21)
TranscriptStreamRendered == app.file # NoFile

\* disabled={!localFile || isUploading} (line 87)
UploadButtonDisabled == app.localFile = NoFile \/ app.isUploading

\* handleFileChange of Upload, lines 9-15
UploadFileChange(f) ==
    /\ app' = IF f # NoFile THEN [app EXCEPT !.localFile = f, !.error = Null] ELSE app
    /\ UNCHANGED fileUploadVars

handleUploadKeepsParent ==
    /\ ~UploadButtonDisabled
    /\ app.pc = "idle"
    /\ Len(app.responses) < MaxUploads
    /\ app' = IF app.localFile = NoFile
              THEN [app EXCEPT !.error = SelectFirstMsg]
              ELSE [app EXCEPT !.streamData = <<>>,
                               !.isUploading = TRUE, !.error = Null,
                               !.pc = "fetch", !.captured = app.localFile]
    /\ UNCHANGED fileUploadVars

\* A click on the enabled button: handleUpload, lines 17-35, up to the await
\* of the fetch.
handleUpload ==
    /\ ~UploadButtonDisabled
    /\ app.pc = "idle"
    /\ Len(app.responses) < MaxUploads
    /\ app' = IF app.localFile = NoFile
              THEN [app EXCEPT !.error = SelectFirstMsg]
              ELSE [app EXCEPT !.file = NoFile, !.streamData = <<>>,
                               !.isUploading = TRUE, !.error = Null,
                               !.pc = "fetch", !.captured = app.localFile]
    /\ UNCHANGED fileUploadVars

\* line 35 resolves with a 2xx response: lines 40-45 and 50-52
UploadResponseOk ==
    /\ app.pc = "fetch"
    /\ app' = [app EXCEPT !.file = app.captured, !.isUploading = FALSE,
                          !.pc = "idle", !.responses = Append(@, "ok")]
    /\ UNCHANGED fileUploadVars

\* line 35 resolves with a non-2xx response: line 41 throws, lines 47-52
UploadResponseNotOk ==
    /\ app.pc = "fetch"
    /\ app' = [app EXCEPT !.error = UploadFailedMsg, !.isUploading = FALSE,
                          !.pc = "idle", !.responses = Append(@, "notOk")]
    /\ UNCHANGED fileUploadVars

\* line 35 rejects: lines 47-52
UploadFetchRejects ==
    /\ app.pc = "fetch"
    /\ app' = [app EXCEPT !.error = UploadFailedMsg, !.isUploading = FALSE,
                          !.pc = "idle", !.responses = Append(@, "rejected")]
    /\ UNCHANGED fileUploadVars

\* TranscriptStream, while rendered, adds an object of the stream to
\* streamData through the setStreamData it is given (App.js lines 7, 21).
StreamDataAppends ==
    /\ TranscriptStreamRendered
    /\ Len(app.streamData) < MaxStreamData
    /\ app' = [app EXCEPT !.streamData = Append(@, "object")]
    /\ UNCHANGED fileUploadVars

UploadNext ==
    \/ \E f \in UploadFiles \cup {NoFile} : UploadFileChange(f)
    \/ handleUpload
    \/ UploadResponseOk
    \/ UploadResponseNotOk
    \/ UploadFetchRejects
    \/ StreamDataAppends

----------------------------------------------------------------------------
(* The component *)

Init ==
    /\ file = NoFile
    /\ state = initialState
    /\ cb = Capture(initialState)
    /\ abortRef = 0
    /\ controllers = <<>>
    /\ sessions = <<>>
    /\ hist = EmptyHist
    /\ dispatched = <<>>
    /\ app = AppInit

Sessions == 1..Len(sessions)

Next ==
    \/ ClickStart
    \/ ClickDisabled
    \/ ClickReturns
    \/ \E f \in Files \cup {NoFile} : handleFileChange(f)
    \/ \E i \in Sessions : UploadOk(i)
    \/ \E i \in Sessions, status \in StatusCodes : UploadNotOk(i, status)
    \/ \E i \in Sessions : UploadRejects(i)
    \/ \E i \in Sessions : StreamOk(i)
    \/ \E i \in Sessions, status \in StatusCodes : StreamNotOk(i, status)
    \/ \E i \in Sessions : StreamNoBody(i)
    \/ \E i \in Sessions : StreamRejects(i)
    \/ \E i \in {j \in Sessions : sessions[j].pc = "read"} :
            \E new \in Streams(Unwritten(i)) :
                \E k \in ChunkEnds(sessions[i].wire, new) : ReadChunk(i, new, k)
    \/ \E i \in Sessions : ReadDone(i)
    \/ \E i \in Sessions : ReadRejects(i)
    \/ \E i \in Sessions : CancelSettles(i)

\* The component as the source has it: nothing triggers the signal of a
\* running session.
Spec == Init /\ [][Next]_vars

\* The component with cancel requests
NextAbort ==
    \/ Next
    \/ Abort
    \/ \E i \in Sessions : UploadAborts(i)
    \/ \E i \in Sessions : StreamAborts(i)
    \/ \E i \in Sessions : ReadAborts(i)

SpecAbort == Init /\ [][NextAbort]_vars

\* App with its Upload component
SpecUpload == Init /\ [][UploadNext]_vars

----------------------------------------------------------------------------
(* The reducer alone: streamReducer applied to any action, from any state it
   can produce *)

Fragments == {"", "x", "hello", "world"}

ReducerActions ==
    {Action("START", Null), Action("RESET", Null), Action("ERROR", "boom"),
     Action("UPDATE_STATUS", "Transcribing"),
     Action("COMPLETE", Null), Action("COMPLETE", CompleteMsg)}
    \cup {Action("APPEND_TRANSCRIPT", p) : p \in Fragments}
    \cup {Action("APPEND_SUMMARY", p) : p \in Fragments}

\* dispatch(a) on the reducer of line 156
ReducerStep(a) ==
    /\ Len(dispatched) < MaxDispatch
    /\ state' = streamReducer(state, a)
    /\ dispatched' = Append(dispatched, a)
    /\ UNCHANGED <<file, cb, abortRef, controllers, sessions, hist, app>>

ReducerNext == \E a \in ReducerActions : ReducerStep(a)

SpecReducer == Init /\ [][ReducerNext]_vars

----------------------------------------------------------------------------
(* Vocabulary of the properties *)

\* The frame the decoder is to emit for a record: its text without the
\* blank line and the surrounding white space.
FrameOf(kind) == trim(RecordText(kind))

Ended(i) == sessions[i].pc = "done" /\ sessions[i].exit # "retired"
AllReturned == \A i \in Sessions : sessions[i].pc = "done"

RECURSIVE Join(_)
Join(words) ==
    IF words = <<>> THEN ""
    ELSE IF Len(words) = 1 THEN words[1]
    ELSE words[1] \o " " \o Join(Tail(words))

TranscriptOfFrame(e) ==
    IF e.message = FrameOf("hello") THEN <<"hello">>
    ELSE IF e.message = FrameOf("world") THEN <<"world">>
    ELSE <<>>

RECURSIVE TranscriptWords(_)
TranscriptWords(log) ==
    IF log = <<>> THEN <<>>
    ELSE TranscriptOfFrame(Head(log)) \o TranscriptWords(Tail(log))

SummaryOfFrame(e) ==
    IF e.message = FrameOf("world") THEN <<"recap">> ELSE <<>>

RECURSIVE SummaryWords(_)
SummaryWords(log) ==
    IF log = <<>> THEN <<>>
    ELSE SummaryOfFrame(Head(log)) \o SummaryWords(Tail(log))

LiveSessions == {i \in Sessions : Live(i)}

\* The first message of log that is the [DONE] frame; 0 if there is none
FirstDone(log) ==
    LET hits == {n \in 1..Len(log) : log[n].message = FrameOf("done")} IN
    IF hits = {} THEN 0 ELSE CHOOSE n \in hits : \A m \in hits : n <= m

HasBad(log) == \E n \in 1..Len(log) : log[n].message = FrameOf("bad")

\* What the decode loop logs when the whole text arrives in one chunk
OneChunk(recs) == Drain(AppendChunk(<<>>, WireText(recs)), initialState, <<>>).log

\* Everything written to the stream of the latest session has been decoded
AllDelivered ==
    /\ Sessions # {}
    /\ \/ sessions[Latest].pc = "read" /\ sessions[Latest].wire = <<>>
       \/ sessions[Latest].exit \in {"exhausted", "done"}

----------------------------------------------------------------------------
(* Properties *)

\* C1: every run of handleUploadAndAnalyze dispatches at most one terminal
\* action (COMPLETE or ERROR), whatever the path it leaves by.
C1_AtMostOneTerminal ==
    \A i \in Sessions : Len(sessions[i].terminals) <= 1

\* C2: once a data frame with tag ERROR and message "boom" is decoded, nothing
\* is dispatched for any later frame, and the session ends failed with
\* error = "boom" and isProcessing = FALSE.
C2_ErrorPayloadEndsSession ==
    \A n \in 1..Len(hist.log) :
        hist.log[n].message = FrameOf("error") =>
            /\ \A m \in (n + 1)..Len(hist.log) : hist.log[m].acts = <<>>
            /\ Ended(Latest) => state.error = "boom" /\ ~state.isProcessing

\* C3: when every run of handleUploadAndAnalyze has returned, isProcessing is
\* FALSE: no session ends with the state still in progress.
C3_ReturnedMeansNotProcessing ==
    AllReturned => ~state.isProcessing

\* C4: a session that ends because its signal was aborted ends with
\* isProcessing = FALSE, has dispatched no ERROR, and error is still null.
C4_AbortIsNoError ==
    \A i \in Sessions :
        (Ended(i) /\ sessions[i].exit = "abort") =>
            /\ ~state.isProcessing
            /\ state.error = Null
            /\ \A n \in 1..Len(sessions[i].terminals) :
                    sessions[i].terminals[n].type # "ERROR"

\* C5: while isProcessing is TRUE a click starts nothing: the start step is
\* not enabled, no run of handleUploadAndAnalyze is added, the current
\* AbortController is not replaced and none is created; every live session
\* has isProcessing TRUE, so at most one session is live at any time.
C5_StartRejectedWhileProcessing ==
    /\ [](state.isProcessing => ~ENABLED ClickStart)
    /\ [](\A i \in LiveSessions : state.isProcessing)
    /\ [](Cardinality(LiveSessions) <= 1)
    /\ [][state.isProcessing =>
            /\ Len(sessions') = Len(sessions)
            /\ abortRef' = abortRef
            /\ Len(controllers') = Len(controllers)]_vars

\* A session is live, and only the disabled button keeps a click from
\* starting a second one: the guard of the memoized handler would pass.
C5_ClickWhileProcessing ==
    /\ state.isProcessing
    /\ LiveSessions # {}
    /\ ~GuardReturns
    /\ Len(sessions) < MaxSessions

\* C6: once the [DONE] frame is decoded it is the last message decoded: the
\* run has left the read loop by the success path, the transcript and the
\* summary are those of the frames before [DONE], and the run ends with the
\* single terminal action COMPLETE, isProcessing FALSE and error still null.
C6_DoneEndsLoop ==
    LET d == FirstDone(hist.log) IN
    d # 0 =>
        /\ d = Len(hist.log)
        /\ sessions[Latest].pc \in {"cancel", "done"}
        /\ sessions[Latest].exit = "done"
        /\ state.transcript = Join(TranscriptWords(SubSeq(hist.log, 1, d)))
        /\ state.summary = Join(SummaryWords(SubSeq(hist.log, 1, d)))
        /\ state.error = Null
        /\ sessions[Latest].pc = "cancel" =>
                sessions[Latest].terminals = <<>> /\ state.isProcessing
        /\ Ended(Latest) =>
                /\ sessions[Latest].terminals = <<Action("COMPLETE", CompleteMsg)>>
                /\ ~state.isProcessing

\* A stream with a transcript frame written after [DONE], ended: the frame
\* after [DONE] has left no trace.
C6_FramesAfterDone ==
    /\ hist.recs = <<"hello", "done", "world">>
    /\ Ended(Latest)
    /\ state.transcript = "hello"
    /\ state.summary = ""

\* C7: a data frame whose body is not valid JSON dispatches nothing and does
\* not end the session: no run leaves the loop by a thrown error, a run still
\* reading has dispatched no terminal action, and the transcript and the
\* summary are the join of the fragments of all valid frames decoded, before
\* and after the malformed one, in order.
C7_MalformedFrameSkipped ==
    HasBad(hist.log) =>
        /\ \A n \in 1..Len(hist.log) :
                hist.log[n].message = FrameOf("bad") => hist.log[n].acts = <<>>
        /\ sessions[Latest].exit # "thrown"
        /\ sessions[Latest].pc = "read" =>
                sessions[Latest].terminals = <<>> /\ state.isProcessing
        /\ state.transcript = Join(TranscriptWords(hist.log))
        /\ state.summary = Join(SummaryWords(hist.log))
        /\ (AllDelivered /\ FirstDone(hist.log) = 0) => Len(hist.log) = Len(hist.recs)

\* A malformed frame between two valid ones, the session still reading
C7_BadBetweenValid ==
    /\ hist.recs = <<"hello", "bad", "world">>
    /\ Len(hist.log) = 3
    /\ sessions[Latest].pc = "read"
    /\ state.transcript = "hello world"
    /\ state.summary = "recap"

\* C8: whatever the chunks, the messages decoded so far are the first ones
\* decoded from the same text in one chunk, message by message the frames of
\* the records written; once all the text is delivered they are all of them,
\* one per record when no [DONE] cuts the stream short.
C8_ChunkingInvariance ==
    LET one == OneChunk(hist.recs) IN
    /\ Len(hist.log) <= Len(one)
    /\ hist.log = SubSeq(one, 1, Len(hist.log))
    /\ \A n \in 1..Len(hist.log) : hist.log[n].message = FrameOf(hist.recs[n])
    /\ AllDelivered => hist.log = one
    /\ (AllDelivered /\ FirstDone(hist.log) = 0) => Len(hist.log) = Len(hist.recs)

\* A stream of several records, some chunk having ended inside a record,
\* read to exhaustion and decoded to one frame per record
C8_SplitAndDecoded ==
    /\ hist.split
    /\ Len(hist.recs) >= 2
    /\ Sessions # {} /\ sessions[Latest].exit = "exhausted"
    /\ Len(hist.log) = Len(hist.recs)

\* C9: APPEND_TRANSCRIPT(text) makes the transcript text when it was empty
\* and transcript + " " + text otherwise, and APPEND_SUMMARY does the same
\* to the summary; "hello" then "world" gives "hello world", "" then "x"
\* gives "x".
C9_JoinRule ==
    /\ [][dispatched' # dispatched =>
            LET a == dispatched'[Len(dispatched')] IN
            /\ a.type = "APPEND_TRANSCRIPT" =>
                    state'.transcript = IF state.transcript = "" THEN a.payload
                                        ELSE state.transcript \o " " \o a.payload
            /\ a.type = "APPEND_SUMMARY" =>
                    state'.summary = IF state.summary = "" THEN a.payload
                                     ELSE state.summary \o " " \o a.payload]_vars
    /\ [](dispatched = <<Action("APPEND_TRANSCRIPT", "hello"),
                         Action("APPEND_TRANSCRIPT", "world")>>
            => state.transcript = "hello world")
    /\ [](dispatched = <<Action("APPEND_TRANSCRIPT", ""),
                         Action("APPEND_TRANSCRIPT", "x")>>
            => state.transcript = "x")
    /\ [](dispatched = <<Action("APPEND_SUMMARY", "hello"),
                         Action("APPEND_SUMMARY", "world")>>
            => state.summary = "hello world")
    /\ [](dispatched = <<Action("APPEND_SUMMARY", ""),
                         Action("APPEND_SUMMARY", "x")>>
            => state.summary = "x")

\* An empty fragment, then "x", appended to the empty transcript
C9_EmptyThenX ==
    /\ dispatched = <<Action("APPEND_TRANSCRIPT", ""), Action("APPEND_TRANSCRIPT", "x")>>
    /\ state.transcript = "x"

\* C10: a run that read to the end of the transport without decoding [DONE]
\* ends with isProcessing FALSE, error = "The streaming connection was
\* interrupted." and ERROR as its one terminal action, in every session.
C10_ExhaustedMeansInterrupted ==
    \A i \in Sessions :
        (Ended(i) /\ sessions[i].exit = "exhausted") =>
            /\ ~state.isProcessing
            /\ state.error = InterruptedMsg
            /\ sessions[i].terminals = <<Action("ERROR", InterruptedMsg)>>

\* The messages of the errors thrown at lines 209 and 222
DescriptiveMsgs ==
    {"Upload failed with status " \o ToString(n) : n \in StatusCodes}
    \cup {"Stream request failed with status " \o ToString(n) : n \in StatusCodes \cup {200}}

\* C11: a run that left by a non-2xx upload response, or by a non-2xx or
\* bodiless stream response, ends with isProcessing FALSE and with the
\* message of that failure as the published error, and has read no chunk.
C11_FailureMessagePublished ==
    \A i \in Sessions :
        (/\ Ended(i)
         /\ sessions[i].exit \in {"uploadFail", "streamFail"}
         /\ sessions[i].terminals # <<>>
         /\ sessions[i].terminals[1].payload \in DescriptiveMsgs) =>
            /\ ~state.isProcessing
            /\ state.error = sessions[i].terminals[1].payload
            /\ ~sessions[i].reader
            /\ i = Latest => hist = EmptyHist

\* The latest run ended abnormally: by a transport failure, after an ERROR
\* payload, or at the end of the transport without [DONE]
EndedAbnormally ==
    \/ sessions[Latest].exit \in {"uploadFail", "streamFail", "readError",
                                  "thrown", "exhausted"}
    \/ \E n \in 1..Len(hist.log) : hist.log[n].message = FrameOf("error")

\* C12: error is non-null only when isProcessing is FALSE; once the latest
\* session has ended, error is non-null exactly if it ended abnormally, and
\* it is null after a session that ended by [DONE].
C12_ErrorIffAbnormal ==
    /\ state.error # Null => ~state.isProcessing
    /\ (Sessions # {} /\ Ended(Latest)) =>
            /\ state.error # Null <=> EndedAbnormally
            /\ sessions[Latest].exit = "done" => state.error = Null

IsPrefix(a, b) == Len(a) <= Len(b) /\ SubSeq(b, 1, Len(a)) = a

\* C13: in every step that starts no session (the terminal dispatches and
\* the COMPLETE of a file selection included) the transcript before the
\* step is a prefix of the transcript after it, and so is the summary.
C13_AppendOnly ==
    [][Len(sessions') = Len(sessions) =>
            /\ IsPrefix(state.transcript, state'.transcript)
            /\ IsPrefix(state.summary, state'.summary)]_vars

\* A session has appended, has ended, and a file was selected afterwards:
\* transcript and summary are still there.
C13_KeptAfterFileSelection ==
    /\ Sessions # {} /\ Ended(Latest)
    /\ state.statusMessage = FileSelectedMsg("a.mp3")
    /\ state.transcript = "hello world"
    /\ state.summary = "recap"

\* C14: a run issues its requests in the order upload, stream request, first
\* read; the stream request only after the upload response was found ok, the
\* first read only after the stream response was accepted; a run whose upload
\* failed has issued no stream request and has no reader, and chunks are
\* decoded only by a run that has issued its first read.
C14_UploadThenStreamThenRead ==
    \A i \in Sessions :
        sessions[i].exit # "retired" =>
            /\ sessions[i].issued \in {<<"upload">>, <<"upload", "stream">>,
                                       <<"upload", "stream", "read">>}
            /\ Len(sessions[i].issued) >= 2 => sessions[i].uploadOk
            /\ Len(sessions[i].issued) >= 3 => sessions[i].streamOk
            /\ sessions[i].exit = "uploadFail" =>
                    sessions[i].issued = <<"upload">> /\ ~sessions[i].reader
            /\ sessions[i].reader => Len(sessions[i].issued) = 3
            /\ (i = Latest /\ hist # EmptyHist) => Len(sessions[i].issued) = 3

\* A run that has decoded a frame, after its three requests in order
C14_ReadingAfterBoth ==
    /\ Sessions # {}
    /\ sessions[Latest].issued = <<"upload", "stream", "read">>
    /\ sessions[Latest].uploadOk /\ sessions[Latest].streamOk
    /\ Len(hist.log) >= 1

\* C15: whenever a file is selected and isProcessing is FALSE, a click on the
\* button is not returned by the guard of the handler: it starts a session
\* (within the bound on sessions), after any earlier sessions.
C15_StartAcceptedWhenIdle ==
    (file # NoFile /\ ~state.isProcessing) =>
        /\ ~ENABLED ClickReturns
        /\ Len(sessions) < MaxSessions => ENABLED ClickStart

\* A stream of well-formed data records without an ERROR tag, ended by [DONE]
WellFormed(recs) ==
    /\ recs # <<>>
    /\ recs[Len(recs)] = "done"
    /\ \A n \in 1..(Len(recs) - 1) : recs[n] \in {"hello", "world"}

\* The non-empty fragments the records carry in a field, in stream order
RECURSIVE FragmentsOf(_, _)
FragmentsOf(recs, field) ==
    IF recs = <<>> \/ Head(recs) = "done" THEN <<>>
    ELSE LET data == JSONparse(Tail(FrameOf(Head(recs)))) IN
         (IF data[field] \in {Null, ""} THEN <<>> ELSE <<data[field]>>)
             \o FragmentsOf(Tail(recs), field)

\* C16: for a well-formed stream ended by [DONE], whatever the chunks, the
\* run cannot reach the end of the transport before [DONE]; once it has left
\* by [DONE], one message per record has been decoded, the transcript is the
\* single-space join of the non-empty transcript fragments in stream order
\* and the summary that of the non-empty summary fragments.
C16_JoinOfFragments ==
    (Sessions # {} /\ WellFormed(hist.recs)) =>
        /\ sessions[Latest].exit \in {"none", "done", "readError"}
        /\ sessions[Latest].exit = "done" =>
                /\ Len(hist.log) = Len(hist.recs)
                /\ state.transcript = Join(FragmentsOf(hist.recs, "transcript"))
                /\ state.summary = Join(FragmentsOf(hist.recs, "summary"))

\* Two records and [DONE], a chunk having ended inside a record, the session
\* ended: both transcripts joined, the empty summary of the second left out
C16_TwoRecordsThenDone ==
    /\ hist.recs = <<"world", "hello", "done">>
    /\ hist.split
    /\ Ended(Latest)
    /\ state.transcript = "world hello"
    /\ state.summary = "recap"

\* The action of the last dispatch of a step of the reducer
Dispatched(t) == dispatched'[Len(dispatched')].type = t

\* C17: whatever the state before, the state right after START has
\* transcript = "", summary = "", error = null, isProcessing = TRUE and the
\* status "File uploading...": nothing of an earlier session is left.
C17_StartResets ==
    [][(dispatched' # dispatched /\ Dispatched("START")) =>
            state' = [transcript |-> "", summary |-> "",
                      statusMessage |-> "File uploading...",
                      error |-> Null, isProcessing |-> TRUE]]_vars

\* START dispatched on a state with a transcript and an error
C17_StartAfterError ==
    /\ dispatched = <<Action("APPEND_TRANSCRIPT", "hello"), Action("ERROR", "boom"),
                      Action("START", Null)>>
    /\ state.transcript = ""
    /\ state.error = Null

\* C18: UPDATE_STATUS changes only the status, APPEND_TRANSCRIPT only the
\* transcript, APPEND_SUMMARY only the summary, COMPLETE only isProcessing
\* and the status; ERROR leaves transcript and summary as they are, and an
\* action of unknown type leaves the whole state as it is.
C18_FrameConditions ==
    [][dispatched' # dispatched =>
            /\ Dispatched("UPDATE_STATUS") =>
                    state' = [state EXCEPT !.statusMessage = state'.statusMessage]
            /\ Dispatched("APPEND_TRANSCRIPT") =>
                    state' = [state EXCEPT !.transcript = state'.transcript]
            /\ Dispatched("APPEND_SUMMARY") =>
                    state' = [state EXCEPT !.summary = state'.summary]
            /\ Dispatched("COMPLETE") =>
                    state' = [state EXCEPT !.isProcessing = state'.isProcessing,
                                           !.statusMessage = state'.statusMessage]
            /\ Dispatched("ERROR") =>
                    /\ state'.transcript = state.transcript
                    /\ state'.summary = state.summary
            /\ Dispatched("RESET") => state' = state]_vars

\* COMPLETE dispatched on a state with text and an error: both are kept
C18_CompleteAfterError ==
    /\ dispatched = <<Action("APPEND_SUMMARY", "x"), Action("ERROR", "boom"),
                      Action("COMPLETE", Null)>>
    /\ state.summary = "x"
    /\ state.error = "boom"
    /\ state.statusMessage = "[x] Error: boom"

\* How the fetch of the latest run of handleUpload settled; "none" while it
\* is pending or before the first run
LatestResponse ==
    IF app.pc = "fetch" \/ app.responses = <<>> THEN "none"
    ELSE app.responses[Len(app.responses)]

\* C19: App's file is non-null only after the fetch of the latest run of
\* handleUpload resolved with a 2xx response, and it is then the file that
\* run uploaded; while the fetch is pending the file is null and streamData
\* is empty; after a non-2xx response or a rejected fetch the file is null,
\* so TranscriptStream is rendered only after a successful upload.
C19_FileOnlyAfterSuccess ==
    /\ [](app.file # NoFile =>
            LatestResponse = "ok" /\ app.pc = "idle" /\ app.file = app.captured)
    /\ [](app.pc = "fetch" => app.file = NoFile /\ app.isUploading)
    /\ [](LatestResponse \in {"notOk", "rejected"} =>
            app.file = NoFile /\ ~app.isUploading)
    /\ [](TranscriptStreamRendered => LatestResponse = "ok")
    /\ [][(app.pc = "idle" /\ app'.pc = "fetch") =>
            app'.file = NoFile /\ app'.streamData = <<>>]_vars

\* An upload failed after an earlier one had succeeded and its stream data
\* had arrived: the parent's file is null again and the data gone
C19_FailedAfterSuccess ==
    /\ app.responses = <<"ok", "notOk">>
    /\ app.captured = "b.mp4"
    /\ app.file = NoFile
    /\ app.streamData = <<>>
    /\ app.error = UploadFailedMsg

====
